---- MODULE Spec2Model ----
(***************************************************************************)
(* A model of AnytypeLoader (src/anytype_loader/loader.py): the retry      *)
(* adapter, the pagination driver, the single-item fetch, and the          *)
(* sequential (lazy_load) and concurrent (alazy_load) orchestrators.       *)
(***************************************************************************)
EXTENDS Integers, Sequences, FiniteSets, TLC

(***************************************************************************)
(* Decoded JSON scalars.  A value carries its JSON type and its text, so   *)
(* that Python's str() and truth test can be computed: the JSON string "7" *)
(* and the JSON number 7 are different values with the same str().         *)
(***************************************************************************)
JStr(v) == [t |-> "str", v |-> v]

JInt(v) == [t |-> "int", v |-> v]

JBool(b) == [t |-> "bool", v |-> IF b THEN "True" ELSE "False"]

\* None: a key that is absent (dict.get) or a JSON null
JNull == [t |-> "null", v |-> "None"]

\* Python's str() of a scalar.
str(j) == j.v

\* Python's truth test of a scalar (bool(x), `x or y`, `if x`).
Truthy(j) ==
    CASE j.t = "null" -> FALSE
      [] j.t = "str" -> j.v # ""
      [] j.t = "int" -> j.v # "0"
      [] OTHER -> j.v = "True"

(***************************************************************************)
(* Program constants                                                       *)
(***************************************************************************)
\* self.max_retries = 3
max_retries == 3
\* self.retry_backoff = 1.0
retry_backoff == 1

(***************************************************************************)
(* The HTTP exchange of one attempt: either the transport raises           *)
(* (requests.RequestException / httpx.HTTPError) or a response with a      *)
(* status code comes back.                                                 *)
(***************************************************************************)
Statuses == {200, 204, 399, 400, 401, 403, 404, 429, 500, 503}

TransportFailure == [kind |-> "exc", status |-> 0]

Http(s) == [kind |-> "http", status |-> s]

Exchanges == {TransportFailure} \cup {Http(s) : s \in Statuses}

NoError == [cls |-> "none", why |-> "none", status |-> 0]

\* The two exception classes of exceptions.py; AnytypeAuthError is a
\* subclass of AnytypeAPIError.
APIError(why, s) == [cls |-> "AnytypeAPIError", why |-> why, status |-> s]

AuthError(s) == [cls |-> "AnytypeAuthError", why |-> "status", status |-> s]

ForbiddenIsGeneric(status) ==
    IF status < 400 THEN NoError
    ELSE IF status = 401 THEN AuthError(status)
    ELSE APIError("status", status)

(***************************************************************************)
(* _raise_for_status: the error raised for a response, NoError when it     *)
(* returns normally.                                                       *)
(***************************************************************************)
raise_for_status(status) ==
    IF status < 400 THEN NoError
    ELSE IF status \in {401, 403} THEN AuthError(status)
    ELSE APIError("status", status)

(***************************************************************************)
(* One iteration of the while-loop of _request_with_retries, entered with  *)
(* the local `attempt` and ended by the exchange `x`: the loop either goes *)
(* round again (after a warning and a sleep), raises, or returns.          *)
(***************************************************************************)
RetryOutcome(next, att, err, slept, warned) ==
    [next |-> next, attempt |-> att, err |-> err, slept |-> slept, warned |-> warned]

ConstantBackoff(att) == retry_backoff

\* `time.sleep(self.retry_backoff * attempt)`, after `attempt += 1`
Backoff(att) == retry_backoff * att

RetriesForever(x, att) == x.status \in {429, 503}

RetryableOffByOne(x, att) ==
    x.status \in {429, 503} /\ att <= max_retries

Retryable(x, att) ==
    x.status \in {429, 503} /\ att < max_retries

TransportRetried(x, att) ==
    IF att < max_retries
    THEN RetryOutcome("retry", att + 1, NoError, <<Backoff(att + 1)>>, 1)
    ELSE RetryOutcome("raise", att, APIError("transport", 0), <<>>, 0)

OnTransportFailure(x, att) ==
    RetryOutcome("raise", att, APIError("transport", 0), <<>>, 0)

request_with_retries(x, att) ==
    IF x.kind = "exc" THEN OnTransportFailure(x, att)
    ELSE IF Retryable(x, att)
    THEN RetryOutcome("retry", att + 1, NoError, <<Backoff(att + 1)>>, 1)
    ELSE IF raise_for_status(x.status) # NoError
    THEN RetryOutcome("raise", att, raise_for_status(x.status), <<>>, 0)
    ELSE RetryOutcome("return", att, NoError, <<>>, 0)

\* _arequest_with_retries: the same loop around an awaited client call,
\* sleeping with asyncio.sleep.
arequest_with_retries(x, att) ==
    IF x.kind = "exc" THEN OnTransportFailure(x, att)
    ELSE IF Retryable(x, att)
    THEN RetryOutcome("retry", att + 1, NoError, <<Backoff(att + 1)>>, 1)
    ELSE IF raise_for_status(x.status) # NoError
    THEN RetryOutcome("raise", att, raise_for_status(x.status), <<>>, 0)
    ELSE RetryOutcome("return", att, NoError, <<>>, 0)

(***************************************************************************)
(* Remote fixtures of the listing endpoint.                                *)
(***************************************************************************)
RawIds == {JStr("obj-1"), JInt("7")}

\* self.page_size (constructor argument)
page_size == 2
\* the longest listing a fixture holds, in pages
MaxPages == 2
\* the listing requests one pagination pass may make in the model
MaxRequests == 3

RECURSIVE SeqsUpTo(_, _)
SeqsUpTo(S, n) ==
    IF n = 0 THEN {<<>>}
    ELSE LET shorter == SeqsUpTo(S, n - 1)
         IN  shorter \cup {Append(q, e) : q \in {r \in shorter : Len(r) = n - 1}, e \in S}

\* A decoded listing body: {"data": [{"id": ...}, ...], "pagination":
\* {"has_more": ...}} when wf, anything else (not a dict, "data" not a list)
\* when not.
Page(ids, has_more) == [wf |-> TRUE, ids |-> ids, has_more |-> has_more]

WellFormedPages == {Page(i, h) : i \in SeqsUpTo(RawIds, page_size), h \in BOOLEAN}

MalformedPage == [wf |-> FALSE, ids |-> <<>>, has_more |-> FALSE]

Pages == WellFormedPages \cup {MalformedPage}

Listings == SeqsUpTo(Pages, MaxPages) \ {<<>>}

\* The page the remote answers the k-th listing request of a pass with; a
\* remote asked beyond its last page answers with that page again.
PageServed(pages, k) == pages[IF k <= Len(pages) THEN k ELSE Len(pages)]

(***************************************************************************)
(* _parse_objects_response: (ids, has_more) of a decoded body, and whether *)
(* the "unexpected list response structure" warning is emitted.            *)
(***************************************************************************)
parse_objects_response(body) ==
    IF body.wf
    THEN [ids |-> body.ids, has_more |-> body.has_more, warned |-> 0]
    ELSE [ids |-> <<>>, has_more |-> FALSE, warned |-> 1]

(***************************************************************************)
(* _iter_object_ids, as the steps of the generator.  `it` is its frame:    *)
(* offset, the object_ids and has_more of the page in hand, pos = how many *)
(* of its ids were yielded, attempt = the retry adapter's counter of the   *)
(* listing request under way, n = the pages this pass was served (the      *)
(* remote's place in its fixture).                                         *)
(***************************************************************************)
IterStart(space) ==
    [space |-> space, offset |-> 0, object_ids |-> <<>>, has_more |-> FALSE,
     pos |-> 0, attempt |-> 0, n |-> 0, pc |-> "list"]

\* The parameters of the _list_objects call.
ListCall(it) == [space_id |-> it.space, limit |-> page_size, offset |-> it.offset]

\* `if offset == 0 and not object_ids: warnings.warn(...)`
NoObjectsWarning(it, object_ids) ==
    IF it.offset = 0 /\ object_ids = <<>> THEN 1 ELSE 0

\* The page came back: object_ids, has_more = self._list_objects(...)
IterOnPage(it, parsed) ==
    [it EXCEPT !.object_ids = parsed.ids, !.has_more = parsed.has_more,
               !.pos = 0, !.attempt = 0, !.n = it.n + 1,
               !.pc = IF parsed.ids = <<>> THEN "advance" ELSE "yield"]

\* `for object_id in object_ids: yield str(object_id)`
IterYielded(it) == str(it.object_ids[it.pos + 1])

DropsLastOfPage(it) ==
    [it EXCEPT !.pos = it.pos + 1,
               !.pc = IF it.pos + 2 >= Len(it.object_ids) THEN "advance" ELSE "yield"]

IterAfterYield(it) ==
    [it EXCEPT !.pos = it.pos + 1,
               !.pc = IF it.pos + 1 = Len(it.object_ids) THEN "advance" ELSE "yield"]

AdvanceByPageSize(it) ==
    [it EXCEPT !.offset = it.offset + page_size,
               !.pc = IF it.has_more THEN "list" ELSE "done"]

\* `offset += len(object_ids)`, then `if not has_more: break`
IterAdvance(it) ==
    [it EXCEPT !.offset = it.offset + Len(it.object_ids),
               !.pc = IF it.has_more THEN "list" ELSE "done"]

\* _aiter_object_ids: the same generator around the awaited _alist_objects.
AIterOnPage(it, parsed) ==
    [it EXCEPT !.object_ids = parsed.ids, !.has_more = parsed.has_more,
               !.pos = 0, !.attempt = 0, !.n = it.n + 1,
               !.pc = IF parsed.ids = <<>> THEN "advance" ELSE "yield"]

AIterYielded(it) == str(it.object_ids[it.pos + 1])

AIterAfterYield(it) ==
    [it EXCEPT !.pos = it.pos + 1,
               !.pc = IF it.pos + 1 = Len(it.object_ids) THEN "advance" ELSE "yield"]

AStopsAfterPage(it) ==
    [it EXCEPT !.offset = it.offset + Len(it.object_ids), !.pc = "done"]

AIterAdvance(it) ==
    [it EXCEPT !.offset = it.offset + Len(it.object_ids),
               !.pc = IF it.has_more THEN "list" ELSE "done"]

\* The exchanges a listing or detail request meets outside the adapter's own
\* specification.
FewExchanges == {Http(200), Http(429), Http(500)}

(***************************************************************************)
(* Python dicts with string keys, as functions.                            *)
(***************************************************************************)
EmptyDict == [k \in {} |-> JNull]

Put(d, k, v) == [x \in DOMAIN d \cup {k} |-> IF x = k THEN v ELSE d[x]]

\* d.update(e)
Update(d, e) == [x \in DOMAIN d \cup DOMAIN e |-> IF x \in DOMAIN e THEN e[x] ELSE d[x]]

(***************************************************************************)
(* _extract_properties.  A property entry is [isdict, key, format, value,  *)
(* multi_select]: value is prop.get(format), multi_select is [islist,      *)
(* items], an item is [isdict, name].  The result is the mapping, or       *)
(* raised = TRUE when an entry that is no dict is reached (prop.get raises *)
(* AttributeError).                                                        *)
(***************************************************************************)
AllowsName == {"tag", "description", "last_opened_date", "last_modified_date", "created_date",
               "name"}

RenamesNothing == [k \in {"created_date", "last_modified_date", "last_opened_date"} |-> k]

allowed_keys == {"tag", "description", "last_opened_date", "last_modified_date", "created_date"}

rename_map ==
    [k \in {"created_date", "last_modified_date", "last_opened_date"} |->
        CASE k = "created_date" -> "created_at"
          [] k = "last_modified_date" -> "updated_at"
          [] OTHER -> "last_opened_at"]

RECURSIVE TagNames(_)
TagNames(items) ==
    IF items = <<>> THEN <<>>
    ELSE LET tag == Head(items)
         IN  (IF tag.isdict /\ Truthy(tag.name) THEN <<str(tag.name)>> ELSE <<>>)
                \o TagNames(Tail(items))

RECURSIVE ExtractLoop(_, _)
ExtractLoop(properties, extracted) ==
    IF properties = <<>> THEN [raised |-> FALSE, map |-> extracted]
    ELSE LET prop == Head(properties)
             rest == Tail(properties)
         IN  IF ~prop.isdict THEN [raised |-> TRUE, map |-> extracted]
             ELSE IF prop.key \notin allowed_keys THEN ExtractLoop(rest, extracted)
             ELSE IF prop.key = "tag"
             THEN IF ~prop.multi_select.islist THEN ExtractLoop(rest, extracted)
                  ELSE IF TagNames(prop.multi_select.items) # <<>>
                  THEN ExtractLoop(rest, Put(extracted, "tags", TagNames(prop.multi_select.items)))
                  ELSE ExtractLoop(rest, extracted)
             ELSE IF prop.format \in {"date", "text"}
             THEN ExtractLoop(rest,
                      Put(extracted,
                          IF prop.key \in DOMAIN rename_map THEN rename_map[prop.key] ELSE prop.key,
                          prop.value))
             ELSE ExtractLoop(rest, extracted)

extract_properties(properties) ==
    IF ~properties.islist THEN [raised |-> FALSE, map |-> EmptyDict]
    ELSE ExtractLoop(properties.items, EmptyDict)

(***************************************************************************)
(* The decoded body of an item detail response.  shape tells how far the   *)
(* expected {"object": {...}} goes: "notdict" (the body is no dict),       *)
(* "noobject" (no "object" key), "objnotdict" ("object" is no dict), "ok".  *)
(* type is [isdict, name]; the other fields are what obj.get(...) gives.   *)
(***************************************************************************)
Detail(shape, markdown, name, type, archived, properties) ==
    [shape |-> shape, markdown |-> markdown, name |-> name, type |-> type,
     archived |-> archived, properties |-> properties]

NoWarnings == [nomarkdown |-> 0, notype |-> 0, noname |-> 0]

Fetched(kind, doc, err, warned) == [kind |-> kind, doc |-> doc, err |-> err, warned |-> warned]

NoDoc == [page_content |-> "", metadata |-> EmptyDict]

\* self.space_name_map.get(space_id)
SpaceName(name_map, space_id) ==
    IF space_id \in DOMAIN name_map THEN JStr(name_map[space_id]) ELSE JNull

Metadata(name_map, space_id, object_id, obj) ==
    LET obj_type == IF obj.type.isdict THEN obj.type.name ELSE JNull
    IN  [k \in {"space_id", "space_name", "object_id", "id", "name", "archived", "type"} |->
            CASE k = "space_id" -> JStr(space_id)
              [] k = "space_name" -> SpaceName(name_map, space_id)
              [] k = "object_id" -> JStr(object_id)
              [] k = "id" -> JStr(object_id)
              [] k = "name" -> IF Truthy(obj.name) THEN obj.name ELSE JStr("untitled")
              [] k = "archived" -> JBool(Truthy(obj.archived))
              [] OTHER -> IF obj_type = JNull THEN JStr("unknown") ELSE obj_type]

FetchWarnings(obj) ==
    [nomarkdown |-> 0,
     notype |-> IF obj.type.isdict /\ obj.type.name # JNull THEN 0 ELSE 1,
     noname |-> IF obj.name = JNull THEN 1 ELSE 0]

MalformedSkipped(name_map, space_id, object_id, data) ==
    Fetched("none", NoDoc, NoError, NoWarnings)

\* `if not isinstance(obj, dict): raise AnytypeAPIError(...)`
OnMalformed(name_map, space_id, object_id, data) ==
    Fetched("raise", NoDoc, APIError("malformed", 0), NoWarnings)

\* `if markdown is None: warnings.warn(...); return None`
OnNoMarkdown(name_map, space_id, object_id, data) ==
    Fetched("none", NoDoc, NoError, [NoWarnings EXCEPT !.nomarkdown = 1])

\* The rest of _fetch_object once the adapter returned the response whose
\* decoded body is `data`.
fetch_object(name_map, space_id, object_id, data) ==
    IF data.shape # "ok" THEN OnMalformed(name_map, space_id, object_id, data)
    ELSE IF data.markdown = JNull THEN OnNoMarkdown(name_map, space_id, object_id, data)
    ELSE LET props == extract_properties(data.properties)
         IN  IF props.raised
             THEN Fetched("raise", NoDoc,
                          [cls |-> "AttributeError", why |-> "property", status |-> 0],
                          FetchWarnings(data))
             ELSE Fetched("doc",
                          [page_content |-> str(data.markdown),
                           metadata |-> Update(Metadata(name_map, space_id, object_id, data),
                                               props.map)],
                          NoError, FetchWarnings(data))

WithoutProperties(name_map, space_id, object_id, data) ==
    IF data.shape # "ok" THEN OnMalformed(name_map, space_id, object_id, data)
    ELSE IF data.markdown = JNull THEN OnNoMarkdown(name_map, space_id, object_id, data)
    ELSE Fetched("doc",
                 [page_content |-> str(data.markdown),
                  metadata |-> Metadata(name_map, space_id, object_id, data)],
                 NoError, FetchWarnings(data))

\* The rest of _afetch_object once the adapter returned.
afetch_object(name_map, space_id, object_id, data) ==
    IF data.shape # "ok" THEN OnMalformed(name_map, space_id, object_id, data)
    ELSE IF data.markdown = JNull THEN OnNoMarkdown(name_map, space_id, object_id, data)
    ELSE LET props == extract_properties(data.properties)
         IN  IF props.raised
             THEN Fetched("raise", NoDoc,
                          [cls |-> "AttributeError", why |-> "property", status |-> 0],
                          FetchWarnings(data))
             ELSE Fetched("doc",
                          [page_content |-> str(data.markdown),
                           metadata |-> Update(Metadata(name_map, space_id, object_id, data),
                                               props.map)],
                          NoError, FetchWarnings(data))

(***************************************************************************)
(* Fixtures of the item detail endpoint.                                   *)
(***************************************************************************)
NotAList == [islist |-> FALSE, items |-> <<>>]

List(items) == [islist |-> TRUE, items |-> items]

Prop(key, format, value) ==
    [isdict |-> TRUE, key |-> key, format |-> format, value |-> value,
     multi_select |-> NotAList]

TagProp(names) ==
    [isdict |-> TRUE, key |-> "tag", format |-> "multi_select", value |-> JNull,
     multi_select |-> List([i \in 1..Len(names) |-> [isdict |-> TRUE, name |-> names[i]]])]

SomeProperties ==
    List(<<TagProp(<<JStr("alpha"), JStr("beta")>>),
           Prop("created_date", "date", JStr("2024-01-01")),
           Prop("ignored", "objects", JNull),
           Prop("name", "text", JStr("shadow"))>>)

Types == {[isdict |-> FALSE, name |-> JNull], [isdict |-> TRUE, name |-> JNull],
          [isdict |-> TRUE, name |-> JStr("Page")]}

Names == {JNull, JStr(""), JStr("Doc 1")}

Markdowns == {JNull, JStr(""), JStr("# Doc 1"), JInt("42")}

Details ==
    {Detail(sh, JNull, JNull, [isdict |-> FALSE, name |-> JNull], JNull, NotAList) :
        sh \in {"notdict", "noobject", "objnotdict"}}
    \cup {Detail("ok", md, nm, ty, ar, pr) :
            md \in Markdowns, nm \in Names, ty \in Types,
            ar \in {JNull, JBool(TRUE)}, pr \in {NotAList, SomeProperties}}

(***************************************************************************)
(* State                                                                   *)
(***************************************************************************)
VARIABLES
    \* one call of the retry adapter
    rmode,      \* "sync": _request_with_retries, "async": _arequest_with_retries
    attempt,    \* the local variable `attempt`
    rstate,     \* "running" | "returned" | "raised"
    rlog,       \* the exchanges of the attempts made so far, in order
    rerr,       \* the error raised, NoError while none
    rret,       \* the response returned, meaningful when rstate = "returned"
    rsleeps,    \* the durations slept, in order
    rwarns,     \* the number of warnings emitted
    rcall,      \* the arguments of the call: method, url and params
    rsent,      \* the requests sent so far, in order
    \* one pagination pass over one container
    pmode,      \* "sync": _iter_object_ids, "async": _aiter_object_ids
    listing,    \* the remote's pages of the container
    pit,        \* the generator's frame
    calls,      \* the _list_objects calls made, in order
    served,     \* what each returned _list_objects call returned, in order
    produced,   \* the ids the generator yielded, in order
    pwarns,     \* [noobjects, structure]: warnings emitted, by kind
    perr,       \* the error the pass raised, NoError while none
    \* one fetch of one item
    fmode,      \* "sync": _fetch_object, "async": _afetch_object
    fdata,      \* the decoded body the detail endpoint answers with
    fattempt,   \* the adapter's attempt counter
    fstate,     \* "running" | "returned" | "raised"
    fres,       \* what the fetch returned or raised, and the warnings it emitted
    frwarns     \* the adapter's warnings during the fetch

retryVars == <<rmode, attempt, rstate, rlog, rerr, rret, rsleeps, rwarns, rcall, rsent>>

pageVars == <<pmode, listing, pit, calls, served, produced, pwarns, perr>>

fetchVars == <<fmode, fdata, fattempt, fstate, fres, frwarns>>

VARIABLES
    \* the loader after construction, and the remote it loads from
    space_ids,          \* self.space_ids, in iteration order
    space_name_map,     \* self.space_name_map
    remote,             \* the listing fixture of each container
    detail,             \* the detail body of each (container, item id)
    \* lazy_load
    sstate,     \* "idle" | "run" | "done" | "raised"
    sspace,     \* index in space_ids of the container of the outer loop
    sit,        \* the frame of its _iter_object_ids
    sattempt,   \* the adapter's attempt counter of the fetch under way
    docs,       \* the Documents yielded, in order
    serr,       \* the error raised to the consumer
    outstanding,    \* the HTTP requests lazy_load sent that are not yet answered
    \* alazy_load
    astate,     \* "idle" | "discover" | "gather" | "done" | "raised"
    aspace,     \* index in space_ids of the container of the outer loop
    ait,        \* the frame of its _aiter_object_ids
    tasks,      \* the tasks created, in creation order
    semaphore,  \* the value of asyncio.Semaphore(self.max_concurrency)
    order,      \* the tasks that finished, in completion order
    queue,      \* as_completed's queue of finished tasks not yet awaited
    taken,      \* the number of as_completed results awaited
    awaited,    \* the tasks whose result was awaited, in order
    adocs,      \* the Documents yielded, in order
    aerr,       \* the error raised to the consumer
    async_client,   \* self._async_client: 0 for None, else the instance held
    clients,    \* the number of httpx.AsyncClient instances constructed
    lclient,    \* the local `client` of the _alist_objects call under way
    used,       \* the instances _get_client has returned to a request
    closed,     \* the instances whose aclose() was called, in call order
    closes,     \* the number of calls of AnytypeLoader.aclose
    aclose_pc   \* "idle" | "closing": aclose awaits the client's aclose()

syncVars == <<sstate, sspace, sit, sattempt, docs, serr, outstanding>>

asyncVars == <<astate, aspace, ait, tasks, semaphore, order, queue, taken, awaited, adocs, aerr,
               async_client, clients, lclient, used, closed, closes, aclose_pc>>

clientVars == <<async_client, clients, lclient, used, closed, closes, aclose_pc>>

loaderVars == <<space_ids, space_name_map, remote, detail>>

VARIABLES
    \* the construction of a loader: AnytypeLoader(url, api_key, space_names)
    url,            \* the argument url
    api_key,        \* the argument api_key
    space_names,    \* the argument space_names
    spaces_body,    \* the decoded body GET /v1/spaces answers with
    cstate,         \* "new" | "listing" | "built" | "raised"
    cattempt,       \* the adapter's attempt counter of the spaces request
    crequests,      \* the number of HTTP requests issued
    cwarns,         \* [retry, structure, missing]: warnings emitted, by kind
    cerr,           \* the error the constructor raised, NoError while none
    \* one call of _extract_properties
    xin,            \* the argument properties
    xstate,         \* "called" | "returned" | "raised"
    xout            \* the mapping returned

ctorVars == <<url, api_key, space_names, spaces_body, cstate, cattempt, crequests, cwarns, cerr>>

extractVars == <<xin, xstate, xout>>

vars == <<retryVars, pageVars, fetchVars, loaderVars, syncVars, asyncVars, ctorVars,
          extractVars>>

(***************************************************************************)
(* The retry adapter alone.                                                *)
(***************************************************************************)
Call(method, u, params) == [method |-> method, url |-> u, params |-> params]

\* The calls of the adapter the loader makes: the listing of spaces, a page
\* of a listing, a page of a search and the detail of an item.
Calls ==
    {Call("get", "/v1/spaces", "none"),
     Call("get", "/v1/spaces/space-1/objects", "limit=2&offset=2"),
     Call("post", "/v1/spaces/space-1/search", "limit=2&offset=0"),
     Call("get", "/v1/spaces/space-1/objects/obj-1", "none")}

RetriesWithoutParams(call, att) ==
    IF att = 0 THEN call ELSE [call EXCEPT !.params = "none"]

\* The request of the attempt after `att` earlier ones: the loop passes
\* method, url and kwargs unchanged every time round.
Sent(call, att) == call

RetryInit ==
    /\ rmode \in {"sync", "async"}
    /\ attempt = 0
    /\ rstate = "running"
    /\ rlog = <<>>
    /\ rerr = NoError
    /\ rret = Http(0)
    /\ rsleeps = <<>>
    /\ rwarns = 0
    /\ rcall \in Calls
    /\ rsent = <<>>

\* The adapter at rest, while another part of the loader is looked at.
RetryIdle ==
    /\ rmode = "sync"
    /\ attempt = 0
    /\ rstate = "returned"
    /\ rlog = <<>>
    /\ rerr = NoError
    /\ rret = Http(0)
    /\ rsleeps = <<>>
    /\ rwarns = 0
    /\ rcall = Call("get", "/v1/spaces", "none")
    /\ rsent = <<>>

RetryApply(x, o) ==
    /\ rlog' = Append(rlog, x)
    /\ rsent' = Append(rsent, Sent(rcall, attempt))
    /\ attempt' = o.attempt
    /\ rsleeps' = rsleeps \o o.slept
    /\ rwarns' = rwarns + o.warned
    /\ rerr' = o.err
    /\ rstate' = CASE o.next = "retry" -> "running"
                   [] o.next = "raise" -> "raised"
                   [] OTHER -> "returned"
    /\ rret' = IF o.next = "return" THEN x ELSE rret
    /\ UNCHANGED <<rmode, rcall, pageVars, fetchVars, loaderVars, syncVars, asyncVars, ctorVars,
                   extractVars>>

\* One attempt of _request_with_retries: requests.request(...) and what the
\* loop does with its outcome.
RequestAttempt ==
    /\ rmode = "sync"
    /\ rstate = "running"
    /\ \E x \in Exchanges : RetryApply(x, request_with_retries(x, attempt))

\* One attempt of _arequest_with_retries: await func(url, ...) and what the
\* loop does with its outcome.
ARequestAttempt ==
    /\ rmode = "async"
    /\ rstate = "running"
    /\ \E x \in Exchanges : RetryApply(x, arequest_with_retries(x, attempt))

(***************************************************************************)
(* One pagination pass alone.                                              *)
(***************************************************************************)
PageInit ==
    /\ pmode \in {"sync", "async"}
    /\ listing \in Listings
    /\ pit = IterStart("space-1")
    /\ calls = <<>>
    /\ served = <<>>
    /\ produced = <<>>
    /\ pwarns = [noobjects |-> 0, structure |-> 0]
    /\ perr = NoError

PageIdle ==
    /\ pmode = "sync"
    /\ listing = <<MalformedPage>>
    /\ pit = [IterStart("space-1") EXCEPT !.pc = "done"]
    /\ calls = <<>>
    /\ served = <<>>
    /\ produced = <<>>
    /\ pwarns = [noobjects |-> 0, structure |-> 0]
    /\ perr = NoError

\* One attempt of the listing request of _list_objects / _alist_objects and,
\* when the adapter returns, the rest of the loop body up to the first yield.
ListAttempt(mode, x) ==
    LET o == IF mode = "sync" THEN request_with_retries(x, pit.attempt)
                              ELSE arequest_with_retries(x, pit.attempt)
        parsed == parse_objects_response(PageServed(listing, pit.n + 1))
    IN  /\ calls' = IF pit.attempt = 0 THEN Append(calls, ListCall(pit)) ELSE calls
        /\ CASE o.next = "retry" ->
                  /\ pit' = [pit EXCEPT !.attempt = o.attempt]
                  /\ UNCHANGED <<served, pwarns, perr>>
             [] o.next = "raise" ->
                  /\ pit' = [pit EXCEPT !.pc = "raised"]
                  /\ perr' = o.err
                  /\ UNCHANGED <<served, pwarns>>
             [] OTHER ->
                  /\ pit' = IF mode = "sync" THEN IterOnPage(pit, parsed)
                                             ELSE AIterOnPage(pit, parsed)
                  /\ served' = Append(served, [ids |-> parsed.ids, has_more |-> parsed.has_more])
                  /\ pwarns' = [noobjects |-> pwarns.noobjects + NoObjectsWarning(pit, parsed.ids),
                                structure |-> pwarns.structure + parsed.warned]
                  /\ UNCHANGED perr
        /\ UNCHANGED <<pmode, listing, produced>>
        /\ UNCHANGED <<retryVars, fetchVars, loaderVars, syncVars, asyncVars, ctorVars, extractVars>>

IterList ==
    /\ pmode = "sync"
    /\ pit.pc = "list"
    /\ pit.n < MaxRequests
    /\ \E x \in FewExchanges : ListAttempt("sync", x)

IterYield ==
    /\ pmode = "sync"
    /\ pit.pc = "yield"
    /\ produced' = Append(produced, IterYielded(pit))
    /\ pit' = IterAfterYield(pit)
    /\ UNCHANGED <<pmode, listing, calls, served, pwarns, perr>>
    /\ UNCHANGED <<retryVars, fetchVars, loaderVars, syncVars, asyncVars, ctorVars, extractVars>>

IterNext ==
    /\ pmode = "sync"
    /\ pit.pc = "advance"
    /\ pit' = IterAdvance(pit)
    /\ UNCHANGED <<pmode, listing, calls, served, produced, pwarns, perr>>
    /\ UNCHANGED <<retryVars, fetchVars, loaderVars, syncVars, asyncVars, ctorVars, extractVars>>

AIterList ==
    /\ pmode = "async"
    /\ pit.pc = "list"
    /\ pit.n < MaxRequests
    /\ \E x \in FewExchanges : ListAttempt("async", x)

AIterYield ==
    /\ pmode = "async"
    /\ pit.pc = "yield"
    /\ produced' = Append(produced, AIterYielded(pit))
    /\ pit' = AIterAfterYield(pit)
    /\ UNCHANGED <<pmode, listing, calls, served, pwarns, perr>>
    /\ UNCHANGED <<retryVars, fetchVars, loaderVars, syncVars, asyncVars, ctorVars, extractVars>>

AIterNext ==
    /\ pmode = "async"
    /\ pit.pc = "advance"
    /\ pit' = AIterAdvance(pit)
    /\ UNCHANGED <<pmode, listing, calls, served, produced, pwarns, perr>>
    /\ UNCHANGED <<retryVars, fetchVars, loaderVars, syncVars, asyncVars, ctorVars, extractVars>>

(***************************************************************************)
(* One fetch of one item alone.                                            *)
(***************************************************************************)
Names1 == [s \in {"space-1"} |-> "Personal"]

FetchInit ==
    /\ fmode \in {"sync", "async"}
    /\ fdata \in Details
    /\ fattempt = 0
    /\ fstate = "running"
    /\ fres = Fetched("none", NoDoc, NoError, NoWarnings)
    /\ frwarns = 0

FetchIdle ==
    /\ fmode = "sync"
    /\ fdata = Detail("notdict", JNull, JNull, [isdict |-> FALSE, name |-> JNull], JNull, NotAList)
    /\ fattempt = 0
    /\ fstate = "returned"
    /\ fres = Fetched("none", NoDoc, NoError, NoWarnings)
    /\ frwarns = 0

FetchApply(o, res) ==
    /\ fattempt' = o.attempt
    /\ frwarns' = frwarns + o.warned
    /\ CASE o.next = "retry" -> UNCHANGED <<fstate, fres>>
         [] o.next = "raise" ->
              /\ fstate' = "raised"
              /\ fres' = Fetched("raise", NoDoc, o.err, NoWarnings)
         [] OTHER ->
              /\ fstate' = IF res.kind = "raise" THEN "raised" ELSE "returned"
              /\ fres' = res
    /\ UNCHANGED <<fmode, fdata>>
    /\ UNCHANGED <<retryVars, pageVars, loaderVars, syncVars, asyncVars, ctorVars, extractVars>>

\* One attempt of the request of _fetch_object and, when the adapter returns,
\* the rest of _fetch_object.
FetchAttempt ==
    /\ fmode = "sync"
    /\ fstate = "running"
    /\ \E x \in FewExchanges :
          FetchApply(request_with_retries(x, fattempt),
                     fetch_object(Names1, "space-1", "obj-1", fdata))

AFetchAttempt ==
    /\ fmode = "async"
    /\ fstate = "running"
    /\ \E x \in FewExchanges :
          FetchApply(arequest_with_retries(x, fattempt),
                     afetch_object(Names1, "space-1", "obj-1", fdata))

(***************************************************************************)
(* The loader and its remote.                                              *)
(***************************************************************************)
\* self.max_concurrency (constructor argument)
max_concurrency == 2

Obj1 == JStr("obj-1")

Obj2 == JStr("obj-2")

\* The listings the first and the second container may hold.
FirstListings ==
    {<<Page(<<Obj1, Obj2>>, FALSE)>>, <<Page(<<Obj1>>, TRUE), Page(<<Obj2>>, FALSE)>>}

SecondListings == {<<Page(<<>>, FALSE)>>, <<Page(<<JInt("7")>>, FALSE)>>}

Items == {<<"space-1", "obj-1">>, <<"space-1", "obj-2">>, <<"space-2", "7">>}

GoodDetail ==
    Detail("ok", JStr("# Doc 1"), JStr("Doc 1"), [isdict |-> TRUE, name |-> JStr("Page")],
           JBool(FALSE), SomeProperties)

NoMarkdownDetail ==
    Detail("ok", JNull, JStr("Doc 1"), [isdict |-> TRUE, name |-> JStr("Page")],
           JBool(FALSE), NotAList)

NoObjectDetail ==
    Detail("noobject", JNull, JNull, [isdict |-> FALSE, name |-> JNull], JNull, NotAList)

\* Every item answers with a good body, but for at most one of them.
DetailFixtures ==
    {d \in [Items -> {GoodDetail, NoMarkdownDetail, NoObjectDetail}] :
        Cardinality({i \in Items : d[i] # GoodDetail}) <= 1}

LoaderInit ==
    /\ space_ids = <<"space-1", "space-2">>
    /\ space_name_map = [sid \in {"space-1", "space-2"} |->
                            IF sid = "space-1" THEN "Personal" ELSE "Work"]
    /\ remote \in {[sid \in {"space-1", "space-2"} |-> IF sid = "space-1" THEN l1 ELSE l2] :
                      l1 \in FirstListings, l2 \in SecondListings}
    /\ detail \in DetailFixtures
    /\ sstate = "idle"
    /\ sspace = 1
    /\ sit = IterStart("space-1")
    /\ sattempt = 0
    /\ docs = <<>>
    /\ serr = NoError
    /\ outstanding = 0
    /\ astate = "idle"
    /\ aspace = 1
    /\ ait = IterStart("space-1")
    /\ tasks = <<>>
    /\ semaphore = max_concurrency
    /\ order = <<>>
    /\ queue = <<>>
    /\ taken = 0
    /\ awaited = <<>>
    /\ adocs = <<>>
    /\ aerr = NoError
    /\ async_client = 0
    /\ clients = 0
    /\ lclient = 0
    /\ used = {}
    /\ closed = <<>>
    /\ closes = 0
    /\ aclose_pc = "idle"

LoaderIdle ==
    /\ space_ids = <<"space-1">>
    /\ space_name_map = Names1
    /\ remote = [sid \in {"space-1"} |-> <<Page(<<>>, FALSE)>>]
    /\ detail = [i \in {} |-> NoObjectDetail]
    /\ sstate = "done"
    /\ sspace = 1
    /\ sit = IterStart("space-1")
    /\ sattempt = 0
    /\ docs = <<>>
    /\ serr = NoError
    /\ outstanding = 0
    /\ astate = "done"
    /\ aspace = 1
    /\ ait = IterStart("space-1")
    /\ tasks = <<>>
    /\ semaphore = max_concurrency
    /\ order = <<>>
    /\ queue = <<>>
    /\ taken = 0
    /\ awaited = <<>>
    /\ adocs = <<>>
    /\ aerr = NoError
    /\ async_client = 0
    /\ clients = 0
    /\ lclient = 0
    /\ used = {}
    /\ closed = <<>>
    /\ closes = 0
    /\ aclose_pc = "idle"

(***************************************************************************)
(* lazy_load                                                               *)
(***************************************************************************)
\* The consumer starts iterating lazy_load(), on a fresh loader or after an
\* alazy_load() that ran to its end: the outer loop takes the first container
\* and _iter_object_ids is entered.
LazyLoad ==
    /\ sstate = "idle"
    /\ astate \in {"idle", "done"}
    /\ sstate' = "run"
    /\ sspace' = 1
    /\ sit' = IterStart(space_ids[1])
    /\ UNCHANGED <<sattempt, docs, serr, outstanding>>
    /\ UNCHANGED <<retryVars, pageVars, fetchVars, loaderVars, asyncVars, ctorVars, extractVars>>

SendsAhead(n) == TRUE

\* requests.request(...) is a blocking call: it returns with the response,
\* so the caller sends a request only when none of its own is outstanding.
CallReturned(n) == n = 0

\* The adapter sends a request, of _list_objects or of _fetch_object: the
\* first of the call, or the next one after a retried response and its sleep.
SyncSend ==
    /\ sstate = "run"
    /\ sit.pc \in {"list", "yield"}
    /\ CallReturned(outstanding)
    /\ outstanding' = outstanding + 1
    /\ UNCHANGED <<sstate, sspace, sit, sattempt, docs, serr>>
    /\ UNCHANGED <<retryVars, pageVars, fetchVars, loaderVars, asyncVars, ctorVars, extractVars>>

\* The answer to the listing request of _list_objects: one attempt of the
\* adapter.
SyncList ==
    /\ sstate = "run"
    /\ sit.pc = "list"
    /\ outstanding > 0
    /\ outstanding' = outstanding - 1
    /\ \E x \in FewExchanges :
          LET o == request_with_retries(x, sit.attempt)
              parsed == parse_objects_response(PageServed(remote[sit.space], sit.n + 1))
          IN  CASE o.next = "retry" ->
                     /\ sit' = [sit EXCEPT !.attempt = o.attempt]
                     /\ UNCHANGED <<sstate, serr>>
                [] o.next = "raise" ->
                     /\ sstate' = "raised"
                     /\ serr' = o.err
                     /\ UNCHANGED sit
                [] OTHER ->
                     /\ sit' = IterOnPage(sit, parsed)
                     /\ UNCHANGED <<sstate, serr>>
    /\ UNCHANGED <<sspace, sattempt, docs>>
    /\ UNCHANGED <<retryVars, pageVars, fetchVars, loaderVars, asyncVars, ctorVars, extractVars>>

\* The generator yields the next id; one attempt of the request of
\* _fetch_object for it and, when the adapter returns, the rest of the loop
\* body: the Document is yielded, or the item is skipped.
SyncFetch ==
    /\ sstate = "run"
    /\ sit.pc = "yield"
    /\ outstanding > 0
    /\ outstanding' = outstanding - 1
    /\ \E x \in FewExchanges :
          LET o == request_with_retries(x, sattempt)
              object_id == IterYielded(sit)
              fetched == fetch_object(space_name_map, sit.space, object_id,
                                      detail[<<sit.space, object_id>>])
          IN  CASE o.next = "retry" ->
                     /\ sattempt' = o.attempt
                     /\ UNCHANGED <<sstate, serr, sit, docs>>
                [] o.next = "raise" ->
                     /\ sstate' = "raised"
                     /\ serr' = o.err
                     /\ UNCHANGED <<sit, sattempt, docs>>
                [] OTHER ->
                     /\ sattempt' = 0
                     /\ IF fetched.kind = "raise"
                        THEN /\ sstate' = "raised"
                             /\ serr' = fetched.err
                             /\ UNCHANGED <<sit, docs>>
                        ELSE /\ sit' = IterAfterYield(sit)
                             /\ docs' = IF fetched.kind = "doc"
                                        THEN Append(docs, fetched.doc) ELSE docs
                             /\ UNCHANGED <<sstate, serr>>
    /\ UNCHANGED sspace
    /\ UNCHANGED <<retryVars, pageVars, fetchVars, loaderVars, asyncVars, ctorVars, extractVars>>

\* The page is exhausted: the offset advances, the pass goes on or ends, and
\* after its end the outer loop takes the next container or lazy_load ends.
SyncAdvance ==
    /\ sstate = "run"
    /\ sit.pc = "advance"
    /\ LET it == IterAdvance(sit)
       IN  IF it.pc # "done"
           THEN /\ sit' = it
                /\ UNCHANGED <<sstate, sspace>>
           ELSE IF sspace < Len(space_ids)
           THEN /\ sspace' = sspace + 1
                /\ sit' = IterStart(space_ids[sspace + 1])
                /\ UNCHANGED sstate
           ELSE /\ sstate' = "done"
                /\ sit' = it
                /\ UNCHANGED sspace
    /\ UNCHANGED <<sattempt, docs, serr, outstanding>>
    /\ UNCHANGED <<retryVars, pageVars, fetchVars, loaderVars, asyncVars, ctorVars, extractVars>>

(***************************************************************************)
(* alazy_load.  Each action is what runs between two suspension points of  *)
(* the event loop.                                                         *)
(***************************************************************************)
TaskInsideGate(space, oid) ==
    [space |-> space, oid |-> oid, st |-> "fetching", attempt |-> 0, client |-> 0,
     res |-> Fetched("none", NoDoc, NoError, NoWarnings)]

\* asyncio.create_task(fetch_with_limit(space_id, object_id)): the task is
\* scheduled, it has not run yet.
Task(space, oid) ==
    [space |-> space, oid |-> oid, st |-> "created", attempt |-> 0, client |-> 0,
     res |-> Fetched("none", NoDoc, NoError, NoWarnings)]

ForgetsFinished(ts) == {}

\* The tasks that have finished.
Done(ts) == {t \in 1..Len(ts) : ts[t].st = "done"}

Fetching(ts) == {t \in 1..Len(ts) : ts[t].st = "fetching"}

Perms(S) == {q \in SeqsUpTo(S, Cardinality(S)) :
                Len(q) = Cardinality(S) /\ \A i, j \in 1..Len(q) : q[i] = q[j] => i = j}

\* `for object_id in object_ids: yield str(object_id)` with the consumer's
\* tasks.append(asyncio.create_task(fetch_with_limit(space_id, object_id))),
\* until the page is exhausted.
RECURSIVE CreateTasks(_, _)
CreateTasks(it, ts) ==
    IF it.pc = "yield"
    THEN CreateTasks(AIterAfterYield(it), Append(ts, Task(it.space, AIterYielded(it))))
    ELSE [it |-> it, tasks |-> ts]

CreatesEveryTime(cur, made) == [client |-> made + 1, clients |-> made + 1]

\* _get_client: the instance held, made first when none is held; `made`
\* counts the instances constructed so far and names the new one.
get_client(cur, made) ==
    IF cur = 0
    THEN [client |-> made + 1, clients |-> made + 1]
    ELSE [client |-> cur, clients |-> made]

\* `client = await self._get_client()` of a request: _get_client has no
\* suspension point, so the test and the assignment are one step.
GetClient(g) ==
    /\ async_client' = g.client
    /\ clients' = g.clients
    /\ used' = used \cup {g.client}

\* A request on an instance whose aclose() was called may still get its
\* answer, or fails in the client.
ClientClosed == [kind |-> "closed", status |-> 0]

RuntimeError == [cls |-> "RuntimeError", why |-> "closed", status |-> 0]

ExchangesOn(c) ==
    FewExchanges \cup (IF \E i \in 1..Len(closed) : closed[i] = c THEN {ClientClosed} ELSE {})

\* One attempt of a request sent through the client: the adapter's loop,
\* or the client's own error when it is closed, which the adapter does not
\* catch.
ClientAttempt(x, att) ==
    IF x.kind = "closed"
    THEN RetryOutcome("raise", att, RuntimeError, <<>>, 0)
    ELSE arequest_with_retries(x, att)

\* alazy_load() up to its first suspension: the semaphore is made, the outer
\* loop takes the first container, _aiter_object_ids is entered and
\* _alist_objects gets the client and sends the first listing request.
StartDiscovery ==
    /\ astate' = "discover"
    /\ semaphore' = max_concurrency
    /\ tasks' = <<>>
    /\ aspace' = 1
    /\ ait' = IterStart(space_ids[1])
    /\ order' = <<>>
    /\ queue' = <<>>
    /\ taken' = 0
    /\ awaited' = <<>>
    /\ adocs' = <<>>
    /\ aerr' = NoError
    /\ GetClient(get_client(async_client, clients))
    /\ lclient' = get_client(async_client, clients).client
    /\ UNCHANGED <<closed, closes, aclose_pc>>
    /\ UNCHANGED <<retryVars, pageVars, fetchVars, loaderVars, syncVars, ctorVars, extractVars>>

\* The consumer starts iterating alazy_load() on a fresh loader.
ALazyLoad ==
    /\ astate = "idle"
    /\ sstate = "idle"
    /\ StartDiscovery

\* The consumer iterates alazy_load() again after a pass that ran to its end.
ALazyLoadAgain ==
    /\ astate = "done"
    /\ sstate = "idle"
    /\ StartDiscovery

\* One attempt of the listing request of _alist_objects comes back.  When
\* the adapter returns, the page is parsed, a task is created for each of its
\* ids, the offset advances and the next listing request is sent: of this
\* container, or of the next one; after the last container as_completed is
\* called, which queues the tasks already finished in the order of a set.
ADiscover ==
    /\ astate = "discover"
    /\ ait.pc = "list"
    /\ \E x \in ExchangesOn(lclient) :
          LET o == ClientAttempt(x, ait.attempt)
              parsed == parse_objects_response(PageServed(remote[ait.space], ait.n + 1))
              made == CreateTasks(AIterOnPage(ait, parsed), tasks)
              it == AIterAdvance(made.it)
              g == get_client(async_client, clients)
          IN  CASE o.next = "retry" ->
                     /\ ait' = [ait EXCEPT !.attempt = o.attempt]
                     /\ UNCHANGED <<astate, aerr, tasks, aspace, queue>>
                     /\ UNCHANGED <<async_client, clients, used, lclient>>
                [] o.next = "raise" ->
                     /\ astate' = "raised"
                     /\ aerr' = o.err
                     /\ UNCHANGED <<ait, tasks, aspace, queue>>
                     /\ UNCHANGED <<async_client, clients, used, lclient>>
                [] OTHER ->
                     /\ tasks' = made.tasks
                     /\ UNCHANGED aerr
                     /\ IF it.pc # "done"
                        THEN /\ ait' = it
                             /\ GetClient(g)
                             /\ lclient' = g.client
                             /\ UNCHANGED <<astate, aspace, queue>>
                        ELSE IF aspace < Len(space_ids)
                        THEN /\ aspace' = aspace + 1
                             /\ ait' = IterStart(space_ids[aspace + 1])
                             /\ GetClient(g)
                             /\ lclient' = g.client
                             /\ UNCHANGED <<astate, queue>>
                        ELSE /\ astate' = "gather"
                             /\ ait' = it
                             /\ queue' \in Perms(Done(made.tasks))
                             /\ UNCHANGED <<aspace, async_client, clients, used, lclient>>
    /\ UNCHANGED <<semaphore, order, taken, awaited, adocs, closed, closes, aclose_pc>>
    /\ UNCHANGED <<retryVars, pageVars, fetchVars, loaderVars, syncVars, ctorVars, extractVars>>

AcquiresWithoutWaiting(t) == TRUE

\* `async with semaphore:` lets the task in
Acquires(t) == semaphore > 0

\* A created task runs fetch_with_limit up to its first suspension: it
\* acquires the semaphore, gets the client and sends the detail request.
TaskStart(t) ==
    /\ astate \in {"discover", "gather", "done", "raised"}
    /\ tasks[t].st = "created"
    /\ Acquires(t)
    /\ semaphore' = semaphore - 1
    /\ tasks' = [tasks EXCEPT ![t].st = "fetching",
                              ![t].client = get_client(async_client, clients).client]
    /\ GetClient(get_client(async_client, clients))
    /\ UNCHANGED <<astate, aspace, ait, order, queue, taken, awaited, adocs, aerr>>
    /\ UNCHANGED <<lclient, closed, closes, aclose_pc>>
    /\ UNCHANGED <<retryVars, pageVars, fetchVars, loaderVars, syncVars, ctorVars, extractVars>>

SlotKept(sem) == sem

\* What leaving `async with semaphore:` does to the semaphore.
Released(sem) == sem + 1

\* One attempt of the detail request of task t comes back.  When the adapter
\* returns or raises, _afetch_object ends, the semaphore is released and the
\* task is finished; as_completed, once called, queues it.
TaskAttempt(t) ==
    /\ tasks[t].st = "fetching"
    /\ \E x \in ExchangesOn(tasks[t].client) :
          LET o == ClientAttempt(x, tasks[t].attempt)
              fetched == afetch_object(space_name_map, tasks[t].space, tasks[t].oid,
                                       detail[<<tasks[t].space, tasks[t].oid>>])
              res == IF o.next = "raise"
                     THEN Fetched("raise", NoDoc, o.err, NoWarnings) ELSE fetched
          IN  IF o.next = "retry"
              THEN /\ tasks' = [tasks EXCEPT ![t].attempt = o.attempt]
                   /\ UNCHANGED <<semaphore, order, queue>>
              ELSE /\ tasks' = [tasks EXCEPT ![t].st = "done", ![t].res = res]
                   /\ semaphore' = Released(semaphore)
                   /\ order' = Append(order, t)
                   /\ queue' = IF astate = "gather" THEN Append(queue, t) ELSE queue
    /\ UNCHANGED <<astate, aspace, ait, taken, awaited, adocs, aerr>>
    /\ UNCHANGED clientVars
    /\ UNCHANGED <<retryVars, pageVars, fetchVars, loaderVars, syncVars, ctorVars, extractVars>>

CancelsSiblings(ts) ==
    [t \in 1..Len(ts) |-> IF ts[t].st = "done" THEN ts[t] ELSE [ts[t] EXCEPT !.st = "cancelled"]]

\* What the exception leaving alazy_load does to the tasks: nothing, no
\* handler of the loop cancels or awaits them.
OnTaskFailure(ts) == ts

\* `fetched = await coro` gets the next finished task: its Document is
\* yielded, a None is passed over, its exception is raised to the consumer.
AwaitNext ==
    /\ astate = "gather"
    /\ queue # <<>>
    /\ LET res == tasks[Head(queue)].res
       IN  /\ queue' = Tail(queue)
           /\ taken' = taken + 1
           /\ awaited' = Append(awaited, Head(queue))
           /\ IF res.kind = "raise"
              THEN /\ astate' = "raised"
                   /\ aerr' = res.err
                   /\ tasks' = OnTaskFailure(tasks)
                   /\ UNCHANGED adocs
              ELSE /\ adocs' = IF res.kind = "doc" THEN Append(adocs, res.doc) ELSE adocs
                   /\ UNCHANGED <<astate, aerr, tasks>>
    /\ UNCHANGED <<aspace, ait, semaphore, order>>
    /\ UNCHANGED clientVars
    /\ UNCHANGED <<retryVars, pageVars, fetchVars, loaderVars, syncVars, ctorVars, extractVars>>

\* as_completed is exhausted: alazy_load ends.
AFinish ==
    /\ astate = "gather"
    /\ taken = Len(tasks)
    /\ astate' = "done"
    /\ UNCHANGED <<aspace, ait, tasks, semaphore, order, queue, taken, awaited, adocs, aerr>>
    /\ UNCHANGED clientVars
    /\ UNCHANGED <<retryVars, pageVars, fetchVars, loaderVars, syncVars, ctorVars, extractVars>>

\* the calls of aclose one behaviour of the model makes
MaxCloses == 2

\* aclose up to its suspension: with a client held, the client's aclose()
\* is called and awaited; with none held, aclose returns at once.
AClose ==
    /\ aclose_pc = "idle"
    /\ closes < MaxCloses
    /\ closes' = closes + 1
    /\ IF async_client # 0
       THEN /\ closed' = Append(closed, async_client)
            /\ aclose_pc' = "closing"
       ELSE UNCHANGED <<closed, aclose_pc>>
    /\ UNCHANGED <<astate, aspace, ait, tasks, semaphore, order, queue, taken, awaited, adocs,
                   aerr, async_client, clients, lclient, used>>
    /\ UNCHANGED <<retryVars, pageVars, fetchVars, loaderVars, syncVars, ctorVars, extractVars>>

\* `self._async_client = None`
Forget(cur) == 0

\* The client's aclose() returns and aclose forgets the client.
ACloseReturn ==
    /\ aclose_pc = "closing"
    /\ aclose_pc' = "idle"
    /\ async_client' = Forget(async_client)
    /\ UNCHANGED <<astate, aspace, ait, tasks, semaphore, order, queue, taken, awaited, adocs,
                   aerr, clients, lclient, used, closed, closes>>
    /\ UNCHANGED <<retryVars, pageVars, fetchVars, loaderVars, syncVars, ctorVars, extractVars>>

(***************************************************************************)
(* Construction: __init__, _list_spaces and _resolve_space_ids.  Ids and   *)
(* names of the spaces listing are decoded JSON scalars; the wanted names  *)
(* are the strings of the argument space_names.                            *)
(***************************************************************************)
ValueError(why) == [cls |-> "ValueError", why |-> why, status |-> 0]

\* An entry of the listing: {"id": ..., "name": ...}, or something that is no dict.
Space(id, name) == [isdict |-> TRUE, id |-> id, name |-> name]

NotASpace == [isdict |-> FALSE, id |-> JNull, name |-> JNull]

\* The longest spaces listing enumerated.
MaxSpaces == 2

SpaceEntries ==
    {NotASpace}
    \cup {Space(id, name) : id \in {JStr("space-1"), JStr("space-2"), JStr(""), JNull},
                            name \in {JStr("Personal"), JStr("Work"), JStr("Other")}}

\* The decoded body of GET /v1/spaces: shape "ok" is {"data": [...]}, "nodata"
\* a dict whose "data" is no list, "notdict" anything else.
SpacesBodies ==
    {[shape |-> sh, data |-> <<>>] : sh \in {"notdict", "nodata"}}
    \cup {[shape |-> "ok", data |-> q] : q \in SeqsUpTo(SpaceEntries, MaxSpaces)}

WantedLists == {<<>>, <<"Personal">>, <<"Work">>, <<"Personal", "Work">>}

\* set(space_names)
SetOf(q) == {q[i] : i \in 1..Len(q)}

\* The rest of _list_spaces once the adapter returned the response.
list_spaces(body) ==
    IF body.shape = "ok" THEN [spaces |-> body.data, warned |-> 0]
    ELSE [spaces |-> <<>>, warned |-> 1]

\* `sname in wanted and sid`
KeepsFalsyIds(space, wanted) == space.name.t = "str" /\ space.name.v \in wanted

Selected(space, wanted) ==
    space.name.t = "str" /\ space.name.v \in wanted /\ Truthy(space.id)

\* `for space in spaces:` of _resolve_space_ids.  keys is the insertion order
\* of the dict self.space_name_map, the order its keys() iterates in.
RECURSIVE FirstWriteWins(_, _, _, _)
FirstWriteWins(spaces, wanted, map, keys) ==
    IF spaces = <<>> THEN [map |-> map, keys |-> keys]
    ELSE LET space == Head(spaces)
         IN  IF space.isdict /\ Selected(space, wanted) /\ space.id \notin DOMAIN map
             THEN FirstWriteWins(Tail(spaces), wanted, Put(map, space.id, str(space.name)),
                                 Append(keys, space.id))
             ELSE FirstWriteWins(Tail(spaces), wanted, map, keys)

RECURSIVE ResolveLoop(_, _, _, _)
ResolveLoop(spaces, wanted, map, keys) ==
    IF spaces = <<>> THEN [map |-> map, keys |-> keys]
    ELSE LET space == Head(spaces)
         IN  IF ~space.isdict THEN ResolveLoop(Tail(spaces), wanted, map, keys)
             ELSE IF Selected(space, wanted)
             THEN ResolveLoop(Tail(spaces), wanted, Put(map, space.id, str(space.name)),
                              IF space.id \in DOMAIN map THEN keys ELSE Append(keys, space.id))
             ELSE ResolveLoop(Tail(spaces), wanted, map, keys)

ResolvesSilently(spaces, names) ==
    LET r == ResolveLoop(spaces, SetOf(names), EmptyDict, <<>>)
    IN  [map |-> r.map, unique_ids |-> r.keys, missing_names |-> {},
         err |-> IF r.keys = <<>>
                 THEN ValueError("At least one space name must resolve to an id")
                 ELSE NoError]

ResolvesToNothing(spaces, names) ==
    LET wanted == SetOf(names)
        r == ResolveLoop(spaces, wanted, EmptyDict, <<>>)
    IN  [map |-> r.map, unique_ids |-> r.keys,
         missing_names |-> wanted \ {r.map[k] : k \in DOMAIN r.map}, err |-> NoError]

resolve_space_ids(spaces, names) ==
    LET wanted == SetOf(names)
        r == ResolveLoop(spaces, wanted, EmptyDict, <<>>)
        missing_names == wanted \ {r.map[k] : k \in DOMAIN r.map}
    IN  [map |-> r.map, unique_ids |-> r.keys, missing_names |-> missing_names,
         err |-> IF r.keys = <<>>
                 THEN ValueError("At least one space name must resolve to an id")
                 ELSE NoError]

ChecksCredentialsOnly(u, k, names) ==
    IF u = "" \/ k = "" THEN ValueError("url and api_key are required") ELSE NoError

\* The two checks at the head of __init__.
CheckArguments(u, k, names) ==
    IF u = "" \/ k = "" THEN ValueError("url and api_key are required")
    ELSE IF names = <<>> THEN ValueError("At least one space name is required")
    ELSE NoError

NoCtorWarnings == [retry |-> 0, structure |-> 0, missing |-> <<>>]

\* A constructor call about to run, on no loader yet.
ConstructInit ==
    /\ url \in {"", "http://example.com"}
    /\ api_key \in {"", "secret"}
    /\ space_names \in WantedLists
    /\ spaces_body \in SpacesBodies
    /\ cstate = "new"
    /\ cattempt = 0
    /\ crequests = 0
    /\ cwarns = NoCtorWarnings
    /\ cerr = NoError

\* The constructor call that built the loader of space_ids and space_name_map.
ConstructIdle ==
    /\ url = "http://example.com"
    /\ api_key = "secret"
    /\ space_names = [i \in 1..Len(space_ids) |-> space_name_map[space_ids[i]]]
    /\ spaces_body = [shape |-> "ok",
                      data |-> [i \in 1..Len(space_ids) |->
                                  Space(JStr(space_ids[i]), JStr(space_name_map[space_ids[i]]))]]
    /\ cstate = "built"
    /\ cattempt = 0
    /\ crequests = 1
    /\ cwarns = NoCtorWarnings
    /\ cerr = NoError

ExtractIdle ==
    /\ xin = NotAList
    /\ xstate = "returned"
    /\ xout = EmptyDict

\* No loader yet: nothing to load from, lazy_load and alazy_load cannot run.
Unbuilt ==
    /\ space_ids = <<>>
    /\ space_name_map = EmptyDict
    /\ remote = [sid \in {} |-> <<>>]
    /\ detail = [i \in {} |-> NoObjectDetail]
    /\ sstate = "done"
    /\ sspace = 1
    /\ sit = IterStart("space-1")
    /\ sattempt = 0
    /\ docs = <<>>
    /\ serr = NoError
    /\ outstanding = 0
    /\ astate = "done"
    /\ aspace = 1
    /\ ait = IterStart("space-1")
    /\ tasks = <<>>
    /\ semaphore = max_concurrency
    /\ order = <<>>
    /\ queue = <<>>
    /\ taken = 0
    /\ awaited = <<>>
    /\ adocs = <<>>
    /\ aerr = NoError
    /\ async_client = 0
    /\ clients = 0
    /\ lclient = 0
    /\ used = {}
    /\ closed = <<>>
    /\ closes = 0
    /\ aclose_pc = "idle"

\* __init__ up to the call of _resolve_space_ids: the arguments are checked
\* and the fields are set.
Construct ==
    /\ cstate = "new"
    /\ LET err == CheckArguments(url, api_key, space_names)
       IN  IF err # NoError
           THEN /\ cstate' = "raised"
                /\ cerr' = err
                /\ UNCHANGED space_name_map
           ELSE /\ cstate' = "listing"
                /\ space_name_map' = EmptyDict
                /\ UNCHANGED cerr
    /\ UNCHANGED <<url, api_key, space_names, spaces_body, cattempt, crequests, cwarns>>
    /\ UNCHANGED <<space_ids, remote, detail>>
    /\ UNCHANGED <<retryVars, pageVars, fetchVars, syncVars, asyncVars, extractVars>>

\* One attempt of the request of _list_spaces and, when the adapter returns,
\* the rest of _list_spaces, _resolve_space_ids and __init__.
ListSpaces ==
    /\ cstate = "listing"
    /\ crequests' = crequests + 1
    /\ \E x \in FewExchanges :
          LET o == request_with_retries(x, cattempt)
              listed == list_spaces(spaces_body)
              r == resolve_space_ids(listed.spaces, space_names)
          IN  CASE o.next = "retry" ->
                     /\ cattempt' = o.attempt
                     /\ cwarns' = [cwarns EXCEPT !.retry = @ + o.warned]
                     /\ UNCHANGED <<cstate, cerr, space_ids, space_name_map>>
                [] o.next = "raise" ->
                     /\ cstate' = "raised"
                     /\ cerr' = o.err
                     /\ UNCHANGED <<cattempt, cwarns, space_ids, space_name_map>>
                [] OTHER ->
                     /\ space_name_map' = r.map
                     /\ cwarns' = [cwarns EXCEPT
                                     !.structure = @ + listed.warned,
                                     !.missing = IF r.missing_names # {}
                                                 THEN Append(@, r.missing_names) ELSE @]
                     /\ IF r.err # NoError
                        THEN /\ cstate' = "raised"
                             /\ cerr' = r.err
                             /\ UNCHANGED space_ids
                        ELSE /\ cstate' = "built"
                             /\ space_ids' = r.unique_ids
                             /\ UNCHANGED cerr
                     /\ UNCHANGED cattempt
    /\ UNCHANGED <<url, api_key, space_names, spaces_body>>
    /\ UNCHANGED <<remote, detail>>
    /\ UNCHANGED <<retryVars, pageVars, fetchVars, syncVars, asyncVars, extractVars>>

(***************************************************************************)
(* One call of _extract_properties.                                        *)
(***************************************************************************)
\* The longest list of properties enumerated.
MaxProps == 2

PropFixtures ==
    {TagProp(<<JStr("alpha"), JStr("beta")>>),
     TagProp(<<>>),
     [isdict |-> TRUE, key |-> "tag", format |-> "multi_select", value |-> JNull,
      multi_select |-> List(<<[isdict |-> FALSE, name |-> JNull],
                              [isdict |-> TRUE, name |-> JStr("")],
                              [isdict |-> TRUE, name |-> JInt("3")]>>)],
     Prop("tag", "text", JStr("loose")),
     Prop("description", "text", JStr("hello")),
     Prop("description", "objects", JNull),
     Prop("created_date", "date", JStr("2024-01-01")),
     Prop("created_date", "date", JNull),
     Prop("created_date", "number", JInt("5")),
     Prop("last_modified_date", "text", JStr("2024-02-02")),
     Prop("last_opened_date", "date", JStr("2024-03-03")),
     Prop("ignored", "objects", JNull),
     Prop("name", "text", JStr("shadow")),
     [isdict |-> FALSE, key |-> "", format |-> "", value |-> JNull, multi_select |-> NotAList]}

ExtractInit ==
    /\ xin \in {NotAList} \cup {List(q) : q \in SeqsUpTo(PropFixtures, MaxProps)}
    /\ xstate = "called"
    /\ xout = EmptyDict

ExtractProperties ==
    /\ xstate = "called"
    /\ LET r == extract_properties(xin)
       IN  /\ xstate' = IF r.raised THEN "raised" ELSE "returned"
           /\ xout' = r.map
    /\ UNCHANGED xin
    /\ UNCHANGED <<retryVars, pageVars, fetchVars, loaderVars, syncVars, asyncVars, ctorVars>>

(***************************************************************************)
(* Specifications                                                          *)
(***************************************************************************)
RetryNext == RequestAttempt \/ ARequestAttempt

RetryStart == RetryInit /\ PageIdle /\ FetchIdle /\ LoaderIdle /\ ConstructIdle /\ ExtractIdle

SpecRetry == RetryStart /\ [][RetryNext]_vars

\* Every request sent gets its response or its transport error.
FairRetry == RetryStart /\ [][RetryNext]_vars /\ WF_vars(RetryNext)

PageNext == IterList \/ IterYield \/ IterNext \/ AIterList \/ AIterYield \/ AIterNext

PageStart == RetryIdle /\ PageInit /\ FetchIdle /\ LoaderIdle /\ ConstructIdle /\ ExtractIdle

SpecPage == PageStart /\ [][PageNext]_vars

FetchNext == FetchAttempt \/ AFetchAttempt

FetchStart == RetryIdle /\ PageIdle /\ FetchInit /\ LoaderIdle /\ ConstructIdle /\ ExtractIdle

SpecFetch == FetchStart /\ [][FetchNext]_vars

Init == RetryIdle /\ PageIdle /\ FetchIdle /\ LoaderInit /\ ConstructIdle /\ ExtractIdle

ConstructNext == Construct \/ ListSpaces

ConstructStart == RetryIdle /\ PageIdle /\ FetchIdle /\ Unbuilt /\ ConstructInit /\ ExtractIdle

SpecConstruct == ConstructStart /\ [][ConstructNext]_vars

ExtractNext == ExtractProperties

ExtractStart == RetryIdle /\ PageIdle /\ FetchIdle /\ LoaderIdle /\ ConstructIdle /\ ExtractInit

SpecExtract == ExtractStart /\ [][ExtractNext]_vars

Next ==
    \/ LazyLoad
    \/ SyncSend
    \/ SyncList
    \/ SyncFetch
    \/ SyncAdvance
    \/ ALazyLoad
    \/ ADiscover
    \/ \E t \in 1..Len(tasks) : TaskStart(t)
    \/ \E t \in 1..Len(tasks) : TaskAttempt(t)
    \/ AwaitNext
    \/ AFinish

Spec == Init /\ [][Next]_vars

\* The event loop runs every task that can run, and every request sent is
\* answered: a task that may acquire the semaphore does, and an attempt
\* under way ends.
TaskStep(t) == t <= Len(tasks) /\ (TaskStart(t) \/ TaskAttempt(t))

\* alazy_load alone, on a loader of two containers with three items, more
\* than the semaphore lets in; the first item may answer with a body without
\* "object", and any request may be answered with a status that raises.
TasksInit ==
    /\ LoaderInit
    /\ Len(remote["space-1"]) = 1
    /\ remote["space-2"][1].ids # <<>>
    /\ \A i \in Items : detail[i] = NoObjectDetail => i = <<"space-1", "obj-1">>
    /\ \A i \in Items : detail[i] # NoMarkdownDetail

TasksStart == RetryIdle /\ PageIdle /\ FetchIdle /\ TasksInit /\ ConstructIdle /\ ExtractIdle

TasksNext ==
    \/ ALazyLoad
    \/ ADiscover
    \/ \E t \in 1..Len(tasks) : TaskStart(t)
    \/ \E t \in 1..Len(tasks) : TaskAttempt(t)
    \/ AwaitNext
    \/ AFinish

\* The client's life: alazy_load on a loader of two listing pages and two
\* items, repeated, with aclose called at any moment.
ClientInit ==
    /\ LoaderInit
    /\ remote = [sid \in {"space-1", "space-2"} |->
                    IF sid = "space-1"
                    THEN <<Page(<<Obj1>>, TRUE), Page(<<Obj2>>, FALSE)>>
                    ELSE <<Page(<<>>, FALSE)>>]
    /\ \A i \in Items : detail[i] = GoodDetail

ClientStart == RetryIdle /\ PageIdle /\ FetchIdle /\ ClientInit /\ ConstructIdle /\ ExtractIdle

ClientNext ==
    \/ ALazyLoad
    \/ ALazyLoadAgain
    \/ ADiscover
    \/ \E t \in 1..Len(tasks) : TaskStart(t)
    \/ \E t \in 1..Len(tasks) : TaskAttempt(t)
    \/ AwaitNext
    \/ AFinish
    \/ AClose
    \/ ACloseReturn

SpecClient == ClientStart /\ [][ClientNext]_vars

FairTasks ==
    TasksStart /\ [][TasksNext]_vars /\ \A t \in 1..Cardinality(Items) : WF_vars(TaskStep(t))

\* The consumer goes on iterating and every listing request is answered.
ConsumerStep == ALazyLoad \/ ADiscover \/ AwaitNext \/ AFinish

\* alazy_load on a loader of two containers with three items, more than the
\* semaphore lets in, the first of them without markdown; any request may be
\* answered with a status that is retried or that raises.
LoadInit ==
    /\ LoaderInit
    /\ Len(remote["space-1"]) = 1
    /\ remote["space-2"][1].ids # <<>>
    /\ \A i \in Items : detail[i] = NoMarkdownDetail <=> i = <<"space-1", "obj-1">>
    /\ \A i \in Items : detail[i] # NoObjectDetail

LoadStart == RetryIdle /\ PageIdle /\ FetchIdle /\ LoadInit /\ ConstructIdle /\ ExtractIdle

FairLoad ==
    /\ LoadStart
    /\ [][TasksNext]_vars
    /\ \A t \in 1..Cardinality(Items) : WF_vars(TaskStep(t))
    /\ WF_vars(ConsumerStep)

(***************************************************************************)
(* Properties                                                              *)
(***************************************************************************)
Range(q) == {q[i] : i \in 1..Len(q)}

IsPrefix(p, q) == Len(p) <= Len(q) /\ \A i \in 1..Len(p) : p[i] = q[i]

\* C1. In concurrent mode the number of item fetches that acquired the
\* semaphore and have not finished is at most max_concurrency, in every
\* reachable state.
C1_GateBound == Cardinality(Fetching(tasks)) <= max_concurrency

\* max_concurrency fetches are under way while another task waits for the gate.
C1_Witness ==
    /\ Cardinality(Fetching(tasks)) = max_concurrency
    /\ \E t \in 1..Len(tasks) : tasks[t].st = "created"

\* C2. For the same fixtures, when neither lazy_load nor alazy_load met a
\* failing request, the set of Documents alazy_load yielded equals the set
\* lazy_load yielded.
C2_SameRecords ==
    (sstate = "done" /\ astate = "done") => Range(adocs) = Range(docs)

\* Both modes ended, with three Documents that the concurrent mode yielded in
\* another order.
C2_Witness ==
    /\ sstate = "done"
    /\ astate = "done"
    /\ Len(docs) = 3
    /\ adocs # docs

\* The first page of a listing that says has_more = false, 0 when none does.
LastPage(pages) ==
    IF \E k \in 1..Len(pages) : ~pages[k].has_more
    THEN CHOOSE k \in 1..Len(pages) :
            ~pages[k].has_more /\ \A j \in 1..(k - 1) : pages[j].has_more
    ELSE 0

RECURSIVE IdsOfPages(_, _)
IdsOfPages(pages, k) ==
    IF k = 0 THEN <<>>
    ELSE IdsOfPages(pages, k - 1) \o [i \in 1..Len(pages[k].ids) |-> str(pages[k].ids[i])]

\* C3. For a listing of well-formed pages that ends with a page saying
\* has_more = false, the ids the pagination driver produces are the pages' ids
\* in page order and in-page order, and no page is requested after that page.
C3_PaginationComplete ==
    LET k == LastPage(listing)
    IN  (k # 0 /\ \A i \in 1..k : listing[i].wf) =>
            /\ Len(calls) <= k
            /\ IsPrefix(produced, IdsOfPages(listing, k))
            /\ pit.pc = "done" => (produced = IdsOfPages(listing, k) /\ Len(calls) = k)

\* A pass over two pages ended after producing three ids, not all the same.
C3_Witness ==
    /\ pit.pc = "done"
    /\ Len(served) = 2
    /\ Len(produced) = 3
    /\ produced[1] # produced[2]

RECURSIVE IdsReturned(_, _)
IdsReturned(pages, k) ==
    IF k = 0 THEN 0 ELSE IdsReturned(pages, k - 1) + Len(pages[k].ids)

\* C4. The first listing request of a pass has offset 0, every later one the
\* number of ids all earlier pages of the pass returned, and each has the
\* configured page size as its limit.
C4_OffsetIsIdsSeen ==
    \A i \in 1..Len(calls) :
        /\ calls[i].limit = page_size
        /\ calls[i].offset = IdsReturned(served, i - 1)

\* A third request follows a full and a short page: its offset is no multiple
\* of the page size.
C4_Witness ==
    /\ Len(calls) = 3
    /\ Len(served[1].ids) = page_size
    /\ Len(served[2].ids) = 1
    /\ calls[3].offset = page_size + 1

\* C5. The pagination driver requests no page after a page that says
\* has_more = false or that holds zero ids.
C5_StopsOnEmptyPage ==
    \A i \in 1..Len(served) :
        (~served[i].has_more \/ served[i].ids = <<>>) => Len(calls) <= i

\* C6. If the first page of a container holds zero ids, the driver emits the
\* "no objects" warning, raises no error for it and produces no id: the
\* sequence of the pass is empty.
C6_EmptyFirstPage ==
    (Len(served) >= 1 /\ served[1].ids = <<>>) =>
        /\ pwarns.noobjects >= 1
        /\ Len(calls) = 1 => perr = NoError
        /\ perr = NoError => produced = <<>>

TooManyRequests(k) == [i \in 1..k |-> Http(429)]

\* C7. With retry budget max_retries: k <= max_retries responses 429 followed
\* by a 200 make the adapter return the 200 response with no error, and
\* max_retries + 1 responses 429 in a row make it raise the generic API error
\* for the last 429.
C7_RetryWithinBudget ==
    /\ \A k \in 0..max_retries :
          rlog = TooManyRequests(k) \o <<Http(200)>> =>
              (rstate = "returned" /\ rret = Http(200) /\ rerr = NoError)
    /\ (/\ Len(rlog) >= max_retries + 1
        /\ \A i \in 1..(max_retries + 1) : rlog[i] = Http(429)) =>
              /\ Len(rlog) = max_retries + 1
              /\ rstate = "raised"
              /\ rerr = APIError("status", 429)

\* The whole budget of 429 responses was used and the 200 came back.
C7_Witness ==
    /\ rlog = TooManyRequests(max_retries) \o <<Http(200)>>
    /\ rmode = "async"

\* C8. The adapter makes a further attempt only after a 429 or 503 response;
\* a 401 or 403 raises the authentication error at once, any other status
\* >= 400 that is not retried raises the generic API error at once, and a
\* status < 400 is returned.
C8_Classification ==
    /\ \A i \in 1..(Len(rlog) - 1) :
          rlog[i].kind = "http" /\ rlog[i].status \in {429, 503}
    /\ rlog # <<>> /\ rlog[Len(rlog)].kind = "http" =>
          LET x == rlog[Len(rlog)]
          IN  /\ x.status \in {401, 403} =>
                    (rstate = "raised" /\ rerr = AuthError(x.status))
              /\ (x.status >= 400 /\ x.status \notin {401, 403, 429, 503}) =>
                    (rstate = "raised" /\ rerr = APIError("status", x.status))
              /\ x.status < 400 =>
                    (rstate = "returned" /\ rret = x /\ rerr = NoError)

\* A 403 came after two retries and raised the authentication error.
C8_Witness ==
    /\ rlog = <<Http(429), Http(503), Http(403)>>
    /\ rstate = "raised"

\* C9. An attempt that fails at transport level raises the transport error at
\* once: it is the last attempt of the call, whatever was retried before it.
C9_TransportFatal ==
    \A i \in 1..Len(rlog) :
        rlog[i].kind = "exc" =>
            /\ i = Len(rlog)
            /\ rstate = "raised"
            /\ rerr = APIError("transport", 0)

\* The transport failed on the third attempt, with budget left.
C9_Witness ==
    /\ rlog = <<Http(429), Http(503), TransportFailure>>
    /\ attempt < max_retries

\* The fetch ended by an error the adapter raised, not by the response.
AdapterRaised == fstate = "raised" /\ fres.err.why \in {"status", "transport"}

\* C10. Once the detail response is in: an object that is well-formed but has
\* no markdown gives no Document, no error and exactly one warning; a body
\* whose "object" is missing or no mapping raises the malformed-response
\* error.  In _fetch_object and in _afetch_object.
C10_SkipOrRaise ==
    (fstate # "running" /\ ~AdapterRaised) =>
        /\ (fdata.shape = "ok" /\ fdata.markdown = JNull) =>
              /\ fstate = "returned"
              /\ fres.kind = "none"
              /\ fres.err = NoError
              /\ fres.warned.nomarkdown + fres.warned.notype + fres.warned.noname = 1
        /\ fdata.shape # "ok" =>
              /\ fstate = "raised"
              /\ fres.kind = "raise"
              /\ fres.err = APIError("malformed", 0)

\* _afetch_object skipped an item without markdown, after a retried request.
C10_Witness ==
    /\ fmode = "async"
    /\ fstate = "returned"
    /\ fdata.shape = "ok"
    /\ fdata.markdown = JNull
    /\ fdata.name = JNull
    /\ frwarns = 1

(***************************************************************************)
(* Construction                                                            *)
(***************************************************************************)
\* The positions of the listing that hold a container with a wanted name and
\* a truthy id.
Qualifying ==
    {i \in 1..Len(spaces_body.data) :
        /\ spaces_body.data[i].isdict
        /\ spaces_body.data[i].name.t = "str"
        /\ spaces_body.data[i].name.v \in Range(space_names)
        /\ Truthy(spaces_body.data[i].id)}

\* The wanted names no such container has.
Unmatched ==
    {n \in Range(space_names) : \A i \in Qualifying : spaces_body.data[i].name.v # n}

\* C11. After a successful construction, space_ids and the keys of
\* space_name_map are exactly the ids of the listed containers that have a
\* wanted name and a truthy id, each id once and mapped to a name it is
\* listed under; nothing with a falsy id or an unwanted name is there.
C11_ResolvedExactly ==
    cstate = "built" =>
        /\ Range(space_ids) = {spaces_body.data[i].id : i \in Qualifying}
        /\ DOMAIN space_name_map = Range(space_ids)
        /\ \A i, j \in 1..Len(space_ids) : space_ids[i] = space_ids[j] => i = j
        /\ \A id \in DOMAIN space_name_map :
              \E i \in Qualifying :
                  spaces_body.data[i].id = id /\ spaces_body.data[i].name.v = space_name_map[id]

C11_Witness ==
    /\ cstate = "built"
    /\ Len(space_ids) = 1
    /\ \E i \in 1..Len(spaces_body.data) :
          /\ spaces_body.data[i].isdict
          /\ spaces_body.data[i].name.v \in Range(space_names)
          /\ ~Truthy(spaces_body.data[i].id)

\* C12. When a wanted name matches no listed container and another name
\* resolves, construction succeeds with exactly one warning about unknown
\* spaces, which names every unmatched name, and no resolved id bears an
\* unmatched name.
C12_MissingWarnedOnce ==
    (/\ cstate \in {"built", "raised"}
     /\ crequests > 0
     /\ cerr.cls \notin {"AnytypeAPIError", "AnytypeAuthError"}
     /\ Qualifying # {}
     /\ Unmatched # {}) =>
        /\ cstate = "built"
        /\ Len(cwarns.missing) = 1
        /\ Unmatched \subseteq cwarns.missing[1]
        /\ cwarns.structure = 0
        /\ \A id \in Range(space_ids) : space_name_map[id] \notin Unmatched

C12_Witness ==
    /\ cstate = "built"
    /\ Unmatched = {"Work"}
    /\ space_ids = <<JStr("space-1")>>

\* C13 as claimed. After resolution no two resolved ids bear the same wanted
\* name.
C13_NameHasOneId ==
    cstate = "built" =>
        \A i, j \in 1..Len(space_ids) :
            space_name_map[space_ids[i]] = space_name_map[space_ids[j]] => i = j

\* C13 as amended. After resolution each resolved id bears exactly one name,
\* the name of the last listed container with that id, a wanted name and a
\* truthy id; every such container's id is resolved, also when several of
\* them share a name.
C13_IdHasLastName ==
    cstate = "built" =>
        /\ \A i \in Qualifying : spaces_body.data[i].id \in Range(space_ids)
        /\ \A id \in Range(space_ids) :
              LET last == CHOOSE i \in Qualifying :
                              /\ spaces_body.data[i].id = id
                              /\ \A j \in Qualifying : spaces_body.data[j].id = id => j <= i
              IN  space_name_map[id] = spaces_body.data[last].name.v

C13_Witness ==
    /\ cstate = "built"
    /\ \E i, j \in Qualifying :
          /\ i < j
          /\ spaces_body.data[i].id = spaces_body.data[j].id
          /\ spaces_body.data[i].name # spaces_body.data[j].name

\* C14. When the spaces request was answered and no listed container has a
\* wanted name and a truthy id (a body of an unexpected shape counts as an
\* empty listing, with a warning), the constructor raises ValueError and
\* space_ids is never set.
C14_NothingResolved ==
    (/\ cstate \in {"built", "raised"}
     /\ cerr.cls \notin {"AnytypeAPIError", "AnytypeAuthError"}
     /\ Qualifying = {}) =>
        /\ cstate = "raised"
        /\ cerr.cls = "ValueError"
        /\ space_ids = <<>>
        /\ (crequests > 0 /\ spaces_body.shape # "ok") => cwarns.structure = 1

C14_Witness ==
    /\ cstate = "raised"
    /\ crequests > 0
    /\ spaces_body.shape = "nodata"
    /\ cerr = ValueError("At least one space name must resolve to an id")

\* C15. With an empty url, an empty api_key or an empty space_names the
\* constructor raises ValueError and no HTTP request is ever issued.
C15_ArgumentsFirst ==
    (url = "" \/ api_key = "" \/ space_names = <<>>) =>
        /\ crequests = 0
        /\ cstate \in {"new", "raised"}
        /\ cstate = "raised" => cerr.cls = "ValueError"

C15_Witness ==
    /\ cstate = "raised"
    /\ url # ""
    /\ api_key # ""
    /\ space_names = <<>>

(***************************************************************************)
(* _extract_properties                                                     *)
(***************************************************************************)
OutputKeys == {"tags", "description", "created_at", "updated_at", "last_opened_at"}

AllDicts == \A i \in 1..Len(xin.items) : xin.items[i].isdict

Named(tag) == tag.isdict /\ Truthy(tag.name)

\* The names of the multi_select entries of a tag property, in order.
TagsOf(prop) ==
    LET kept == SelectSeq(prop.multi_select.items, Named)
    IN  [i \in 1..Len(kept) |-> str(kept[i].name)]

\* The entry at position i contributes the output key k.
Projects(i, k) ==
    LET prop == xin.items[i]
    IN  IF prop.key = "tag"
        THEN k = "tags" /\ prop.multi_select.islist /\ TagsOf(prop) # <<>>
        ELSE /\ prop.format \in {"date", "text"}
             /\ \/ prop.key = "description" /\ k = "description"
                \/ prop.key = "created_date" /\ k = "created_at"
                \/ prop.key = "last_modified_date" /\ k = "updated_at"
                \/ prop.key = "last_opened_date" /\ k = "last_opened_at"

LastProjecting(k) ==
    CHOOSE i \in 1..Len(xin.items) :
        Projects(i, k) /\ \A j \in 1..Len(xin.items) : Projects(j, k) => j <= i

BaseKeys == {"space_id", "space_name", "object_id", "id", "name", "archived", "type"}

\* The listing of container s holds an id whose str() is oid.
ListedIn(s, oid) ==
    \E k \in 1..Len(remote[s]) :
        \E i \in 1..Len(remote[s][k].ids) : str(remote[s][k].ids[i]) = oid

RecordOf(d, s) ==
    LET obj == detail[<<s, d.metadata["object_id"].v>>]
    IN  /\ d.metadata["space_id"] = JStr(s)
        /\ ListedIn(s, d.metadata["object_id"].v)
        /\ d.metadata["space_name"] = JStr(space_name_map[s])
        /\ d.metadata["name"] = (IF Truthy(obj.name) THEN obj.name ELSE JStr("untitled"))
        /\ d.metadata["archived"] = JBool(Truthy(obj.archived))
        /\ d.metadata["type"] = obj.type.name

WellFormedRecord(d) ==
    /\ BaseKeys \subseteq DOMAIN d.metadata
    /\ d.metadata["id"] = d.metadata["object_id"]
    /\ \E s \in Range(space_ids) : RecordOf(d, s)

\* C16. The metadata of every Document yielded, by lazy_load and by
\* alazy_load, has the keys space_id, space_name, object_id, id, name,
\* archived and type; id equals object_id, space_id is the container whose
\* listing holds the id and space_name that container's name in
\* space_name_map; name, archived and type are the object's own, whatever the
\* object's properties are.
C16_BaseMetadata ==
    /\ \A i \in 1..Len(docs) : WellFormedRecord(docs[i])
    /\ \A i \in 1..Len(adocs) : WellFormedRecord(adocs[i])

\* Both modes yielded the item of the second container, whose id the listing
\* gives as a number, with its property-derived keys.
C16_Witness ==
    /\ \E i \in 1..Len(docs) :
          /\ docs[i].metadata["space_id"] = JStr("space-2")
          /\ docs[i].metadata["object_id"] = JStr("7")
          /\ "tags" \in DOMAIN docs[i].metadata
    /\ \E i \in 1..Len(adocs) :
          /\ adocs[i].metadata["space_name"] = JStr("Work")
          /\ "created_at" \in DOMAIN adocs[i].metadata

(***************************************************************************)
(* Order of emission                                                       *)
(***************************************************************************)
\* The items in discovery order: the containers in the order of space_ids
\* and, within a container, the ids of its pages in page and in-page order.
RECURSIVE DiscoveryUpTo(_)
DiscoveryUpTo(k) ==
    IF k = 0 THEN <<>>
    ELSE LET s == space_ids[k]
             ids == IdsOfPages(remote[s], LastPage(remote[s]))
         IN  DiscoveryUpTo(k - 1) \o [i \in 1..Len(ids) |-> <<s, ids[i]>>]

Discovery == DiscoveryUpTo(Len(space_ids))

\* The item's detail has an object with markdown: its fetch gives a Document.
HasDocument(item) == detail[item].shape = "ok" /\ detail[item].markdown # JNull

\* The items the Documents of a sequence are of.
ItemsOf(ds) ==
    [i \in 1..Len(ds) |-> <<ds[i].metadata["space_id"].v, ds[i].metadata["object_id"].v>>]

\* The Documents of the first n items of the discovery order, in that order.
RecordsOfFirst(n) == SelectSeq(SubSeq(Discovery, 1, n), HasDocument)

PlaceOf(item) == CHOOSE n \in 1..Len(Discovery) : Discovery[n] = item

\* C20. lazy_load emits the records in container order and, within a
\* container, in discovery order; at most one of its HTTP requests is
\* outstanding; while the fetch of an item is under way the records emitted
\* are those of all the items before it, and while the first listing request
\* of a container is under way they are those of all the containers before.
C20_OneAtATimeInOrder ==
    /\ outstanding <= 1
    /\ \E n \in 0..Len(Discovery) : ItemsOf(docs) = RecordsOfFirst(n)
    /\ (sstate = "run" /\ sit.pc = "yield") =>
          ItemsOf(docs) = RecordsOfFirst(PlaceOf(<<sit.space, IterYielded(sit)>>) - 1)
    /\ (sstate = "run" /\ sit.pc = "list" /\ sit.n = 0) =>
          ItemsOf(docs) = RecordsOfFirst(Len(DiscoveryUpTo(sspace - 1)))

\* The fetch of the item of the second container is under way, after both
\* records of the first container were emitted from two pages.
C20_Witness ==
    /\ sstate = "run"
    /\ sspace = 2
    /\ sit.pc = "yield"
    /\ outstanding = 1
    /\ Len(remote["space-1"]) = 2
    /\ ItemsOf(docs) = <<<<"space-1", "obj-1">>, <<"space-1", "obj-2">>>>

\* The task gave a record or failed: its result shows at the consumer.
Surfaces(t) == tasks[t].res.kind \in {"doc", "raise"}

\* C19. alazy_load hands the consumer the results of the fetch tasks in the
\* order the tasks completed: the records yielded so far, and the failure
\* that ended the stream, are of the first tasks of the completion order
\* that gave a record or failed, in that order.
C19_CompletionOrder ==
    IsPrefix(SelectSeq(awaited, Surfaces), SelectSeq(order, Surfaces))

(***************************************************************************)
(* Sibling tasks                                                           *)
(***************************************************************************)
SomeTaskFailed == \E u \in 1..Len(tasks) : tasks[u].st = "done" /\ tasks[u].res.kind = "raise"

AllTasksDone == \A t \in 1..Len(tasks) : tasks[t].st = "done"

\* C18. Once a fetch task has failed, on a malformed response or on a request
\* error, every task created, before or after the failure, and whether or
\* not the failure has reached the consumer, goes on to acquire the
\* semaphore, run its fetch and finish: from then on, always, all the tasks
\* created so far are eventually finished.
C18_SiblingsComplete == SomeTaskFailed ~> AllTasksDone

\* The failure was raised to the consumer while a sibling had not yet
\* acquired the semaphore and another was fetching.
C18_Witness ==
    /\ astate = "raised"
    /\ aerr = APIError("malformed", 0)
    /\ \E t \in 1..Len(tasks) : tasks[t].st = "created"
    /\ \E t \in 1..Len(tasks) : tasks[t].st = "fetching"


\* C21. The client of the concurrent mode: none exists before the first
\* concurrent request; while aclose was never called one instance at most was
\* made and it is the one every listing request and every fetch task got; an
\* instance is made only when none is held, so every instance made is the one
\* held or was closed; no instance is closed twice; and outside aclose the
\* loader never holds a closed instance, so that after aclose it holds none
\* and the next request makes a new one.
C21_ClientLifecycle ==
    /\ used = {} => (async_client = 0 /\ clients = 0)
    /\ closed = <<>> =>
          /\ clients <= 1
          /\ used \subseteq {1}
          /\ lclient \in {0, 1}
          /\ \A t \in 1..Len(tasks) : tasks[t].st # "created" => tasks[t].client = 1
    /\ clients = Len(closed) + (IF async_client # 0 /\ async_client \notin Range(closed)
                                THEN 1 ELSE 0)
    /\ \A i, j \in 1..Len(closed) : closed[i] = closed[j] => i = j
    /\ (aclose_pc = "idle" /\ async_client # 0) => async_client \notin Range(closed)
    /\ (aclose_pc = "idle" /\ used \subseteq Range(closed)) => async_client = 0

\* After an aclose that closed the first instance and a second aclose that
\* closed nothing, a fetch task got a second instance.
C21_Witness ==
    /\ closes = 2
    /\ closed = <<1>>
    /\ clients = 2
    /\ async_client = 2
    /\ \E t \in 1..Len(tasks) : tasks[t].client = 2


\* The times the adapter's loop went round again.
Retries == IF rstate = "running" THEN Len(rlog) ELSE Len(rlog) - 1

\* C22. In the retry adapter, when k retries were made (k at most
\* max_retries), k warnings were emitted and the sleeps were retry_backoff * 1,
\* ..., retry_backoff * k in this order, one warning and one sleep before
\* each request after the first, and every request sent is the request of the
\* first attempt: same method, url and parameters.
C22_BackoffSameRequest ==
    Len(rlog) > 0 =>
        /\ Retries <= max_retries
        /\ rwarns = Retries
        /\ rsleeps = [k \in 1..Retries |-> retry_backoff * k]
        /\ Len(rsent) = Len(rlog)
        /\ \A i \in 1..Len(rsent) : rsent[i] = rsent[1] /\ rsent[i] = rcall

\* A search request was retried max_retries times and then answered.
C22_Witness ==
    /\ rmode = "async"
    /\ rstate = "returned"
    /\ rcall.method = "post"
    /\ Len(rsent) = max_retries + 1
    /\ Len(rsleeps) = max_retries

\* The adapter is in one state of: running with retryable responses only,
\* returned with the last response, of status < 400, and no error, or
\* raised with an error.
OneOutcome ==
    /\ Len(rsent) <= max_retries + 1
    /\ rstate = "running" =>
          /\ rerr = NoError
          /\ \A i \in 1..Len(rlog) : rlog[i].kind = "http" /\ rlog[i].status \in {429, 503}
    /\ rstate = "returned" =>
          /\ rerr = NoError
          /\ rret = rlog[Len(rlog)]
          /\ rret.kind = "http"
          /\ rret.status < 400
    /\ rstate = "raised" => rerr # NoError

\* C23. One call of the retry adapter sends max_retries + 1 requests at
\* most, and whatever the responses are it ends, and stays ended, in one
\* outcome: a response of status < 400 returned, or an error raised.
C23_AdapterTerminates ==
    /\ [](Len(rlog) > 0 => OneOutcome)
    /\ <>[](rstate # "running")

\* The adapter raised for the last of max_retries + 1 responses 503.
C23_Witness ==
    /\ rstate = "raised"
    /\ Len(rsent) = max_retries + 1
    /\ \A i \in 1..Len(rlog) : rlog[i] = Http(503)


\* The items of the tasks, in creation order.
TaskItems(ts) == [t \in 1..Len(ts) |-> <<ts[t].space, ts[t].oid>>]

\* A step of discovery: a listing request is sent or answered, or tasks are
\* created.
DiscoveryStep == ait' # ait \/ aspace' # aspace \/ Len(tasks') # Len(tasks)

\* C24. In concurrent mode discovery does not go through the semaphore: the
\* tasks are created in discovery order; a step of discovery leaves the
\* semaphore as it is, creates tasks that have not acquired it and leaves
\* the tasks it found alone; and while discovery is under way the answer to
\* the listing request can always be taken, also when no slot is free.
C24_DiscoveryOutsideGate ==
    /\ [](IsPrefix(TaskItems(tasks), Discovery))
    /\ [](astate = "discover" => ENABLED ADiscover)
    /\ [][DiscoveryStep =>
            /\ semaphore' = semaphore
            /\ Len(tasks') >= Len(tasks)
            /\ \A t \in 1..Len(tasks') :
                  IF t <= Len(tasks) THEN tasks'[t] = tasks[t] ELSE tasks'[t].st = "created"]_vars

\* The listing request of the second container is under way while the two
\* tasks of the first hold every slot of the semaphore.
C24_Witness ==
    /\ astate = "discover"
    /\ aspace = 2
    /\ semaphore = 0
    /\ Cardinality(Fetching(tasks)) = max_concurrency


\* The name of the object is not 'untitled': an 'untitled' in the record
\* was substituted.
NameSubstituted == fres.doc.metadata["name"] = JStr("untitled") /\ fdata.name # JStr("untitled")

TypeSubstituted ==
    /\ fres.doc.metadata["type"] = JStr("unknown")
    /\ ~(fdata.type.isdict /\ fdata.type.name = JStr("unknown"))

\* C25. When _fetch_object or _afetch_object returns a Document whose name
\* is the substituted 'untitled', the missing-name warning was emitted for
\* the item, and when its type is the substituted 'unknown', the missing-type
\* warning was.
C25_SentinelWarned ==
    (fstate = "returned" /\ fres.kind = "doc") =>
        /\ NameSubstituted => fres.warned.noname = 1
        /\ TypeSubstituted => fres.warned.notype = 1


\* C26. The slots of the semaphore that are held are as many as the tasks
\* inside their fetch, a task that is retrying included; a task that ended,
\* with a Document, with None or with an exception, holds none, so that all
\* slots are free once every task has ended.
C26_SlotsHeldByFetches ==
    /\ max_concurrency - semaphore = Cardinality(Fetching(tasks))
    /\ \A t \in 1..Len(tasks) :
          tasks[t].attempt > 0 => tasks[t].st \in {"fetching", "done"}
    /\ (\A t \in 1..Len(tasks) : tasks[t].st = "done") => semaphore = max_concurrency

\* One task holds its slot while it retries, after a task that raised and a
\* task that returned a Document gave theirs back.
C26_Witness ==
    /\ semaphore = max_concurrency - 1
    /\ \E t \in 1..Len(tasks) : tasks[t].st = "fetching" /\ tasks[t].attempt = 2
    /\ \E t \in 1..Len(tasks) : tasks[t].st = "done" /\ tasks[t].res.kind = "raise"
    /\ \E t \in 1..Len(tasks) : tasks[t].st = "done" /\ tasks[t].res.kind = "doc"


\* alazy_load raised while _aiter_object_ids was awaiting a listing request.
ListingFailed == astate = "raised" /\ ait.pc = "list"

\* C27. alazy_load has yielded nothing while a listing request of any
\* container is still to be answered; when it has yielded a Document, every
\* container was listed to its end and there is a task for every discovered
\* id; and when a listing request failed, the consumer has the error of the
\* adapter and no Document, whatever the tasks created before have done.
C27_NothingBeforeDiscoveryEnds ==
    /\ astate = "discover" => (adocs = <<>> /\ awaited = <<>>)
    /\ adocs # <<>> =>
          /\ astate \in {"gather", "done", "raised"}
          /\ ait.pc = "done"
          /\ aspace = Len(space_ids)
          /\ TaskItems(tasks) = Discovery
    /\ ListingFailed =>
          /\ adocs = <<>>
          /\ awaited = <<>>
          /\ aerr \in {APIError("status", 500), APIError("status", 429)}

\* The listing of the second container failed after both tasks of the first
\* had returned their Documents.
C27_Witness ==
    /\ ListingFailed
    /\ aspace = 2
    /\ Len(tasks) = 2
    /\ \A t \in 1..Len(tasks) : tasks[t].st = "done" /\ tasks[t].res.kind = "doc"


\* The discovered items whose detail has markdown.
WithMarkdown == {Discovery[n] : n \in {m \in 1..Len(Discovery) : HasDocument(Discovery[m])}}

\* C28. With every request answered and a fair event loop, alazy_load ends
\* and every task created acquires the semaphore and finishes, all slots
\* free again; it ends with an error only when a listing request or a task
\* failed, and when it ends without one it has yielded one Document for each
\* discovered item that has markdown and no other.
C28_ConcurrentLiveness ==
    /\ <>[](astate \in {"done", "raised"} /\ AllTasksDone /\ semaphore = max_concurrency)
    /\ [](astate = "raised" => (ListingFailed \/ SomeTaskFailed))
    /\ [](astate = "done" =>
            /\ Range(ItemsOf(adocs)) = WithMarkdown
            /\ Len(adocs) = Cardinality(WithMarkdown)
            /\ TaskItems(tasks) = Discovery)

\* alazy_load ended with the Documents of two of three items, the third
\* having no markdown, every fetch having waited for a retry.
C28_Witness ==
    /\ astate = "done"
    /\ Len(tasks) = 3
    /\ Len(adocs) = 2
    /\ \A t \in 1..Len(tasks) : tasks[t].attempt > 0

====
